---- MODULE Spec2Model ----
(***************************************************************************)
(* Model of the race program (src/src/lib.rs): the entrypoint              *)
(* process_instruction, its three handlers process_update_race,            *)
(* process_update_game and process_join_race, and the borsh wire format    *)
(* of RaceAccount and RaceInstruction, byte for byte.                      *)
(*                                                                         *)
(* Bytes are naturals 0..255, a byte buffer is a sequence of bytes, a      *)
(* String is the sequence of its (ASCII) bytes, a Pubkey is a sequence of  *)
(* 32 bytes, Option<T> is the empty sequence (None) or a one-element       *)
(* sequence (Some).                                                        *)
(***************************************************************************)
EXTENDS Integers, Sequences, FiniteSets, TLC

VARIABLES
    ledger,            \* account key -> [owner, data]: the accounts' state
    pre,               \* the ledger as it was before the last invocation
    accounts,          \* account list (keys) of the last invocation
    instruction_data,  \* instruction bytes of the last invocation
    result,            \* what the last invocation returned
    joined             \* account key -> the players whose JoinRace on the
                       \* account returned Ok so far (history)

vars == <<ledger, pre, accounts, instruction_data, result, joined>>

----------------------------------------------------------------------------
(* Bounds and environment *)

\* byte capacity of the race account (fixed at account creation): holds a
\* record of two players and 5 bytes of text, or one player and 38
Capacity == 113

\* Pubkey: 32 bytes, here all equal to b
Pubkey(b) == [i \in 1..32 |-> b]

program_id == Pubkey(9)
other_program == Pubkey(8)

----------------------------------------------------------------------------
(* borsh, serialization *)

\* u8/u16/u32/u64::to_le_bytes: the w low bytes of v, least significant first
RECURSIVE to_le_bytes(_, _)
to_le_bytes(v, w) ==
    IF w = 0 THEN <<>> ELSE <<v % 256>> \o to_le_bytes(v \div 256, w - 1)

\* the chunks String::serialize hands to write_all: u32 length, then the bytes
StringChunks(s) == <<to_le_bytes(Len(s), 4), s>>

\* Player::serialize: address (32 bytes), slot (u8)
PlayerChunks(p) == <<p.address, <<p.slot>>>>

RECURSIVE VecPlayerElems(_)
VecPlayerElems(v) ==
    IF v = <<>> THEN <<>> ELSE PlayerChunks(Head(v)) \o VecPlayerElems(Tail(v))

\* Vec<Player>::serialize: u32 length, then each element
VecPlayerChunks(v) == <<to_le_bytes(Len(v), 4)>> \o VecPlayerElems(v)

\* Option<Vec<Player>>::serialize: 0 for None, 1 and the value for Some
OptionChunks(o) ==
    IF o = <<>> THEN << <<0>> >> ELSE << <<1>> >> \o VecPlayerChunks(o[1])

\* mutant of RaceAccountChunks: end_date written before game_url
RaceAccountChunks_Swapped(r) ==
    << <<r.status>>, <<r.level>>, <<r.type>>, to_le_bytes(r.date, 8) >>
    \o StringChunks(r.name)
    \o StringChunks(r.location)
    \o << to_le_bytes(r.distance, 2), to_le_bytes(r.entry_fee, 2),
          to_le_bytes(r.prize_pool, 2) >>
    \o << to_le_bytes(r.end_date, 8) >>
    \o StringChunks(r.game_url)
    \o OptionChunks(r.players)

\* the derived RaceAccount::serialize: the fields in declaration order
RaceAccountChunks(r) ==
    << <<r.status>>, <<r.level>>, <<r.type>>, to_le_bytes(r.date, 8) >>
    \o StringChunks(r.name)
    \o StringChunks(r.location)
    \o << to_le_bytes(r.distance, 2), to_le_bytes(r.entry_fee, 2),
          to_le_bytes(r.prize_pool, 2) >>
    \o StringChunks(r.game_url)
    \o << to_le_bytes(r.end_date, 8) >>
    \o OptionChunks(r.players)

RECURSIVE Flatten(_)
Flatten(chunks) ==
    IF chunks = <<>> THEN <<>> ELSE Head(chunks) \o Flatten(Tail(chunks))

\* the bytes of a record (BorshSerialize::try_to_vec)
try_to_vec(r) == Flatten(RaceAccountChunks(r))

\* std::io::Write for &mut [u8], write_all of one chunk on the writer
\* w = [buf, pos, ok]: copies min(len, remaining) bytes, and fails
\* (WriteZero) when that is not the whole chunk
write_all(w, chunk) ==
    LET room == Len(w.buf) - w.pos
        amt  == IF Len(chunk) <= room THEN Len(chunk) ELSE room
    IN  [ buf |-> SubSeq(w.buf, 1, w.pos) \o SubSeq(chunk, 1, amt)
                  \o SubSeq(w.buf, w.pos + amt + 1, Len(w.buf)),
          pos |-> w.pos + amt,
          ok  |-> amt = Len(chunk) ]

\* the derived serialize: write_all field by field, stopping (the `?`) at the
\* first chunk that fails
RECURSIVE WriteChunks(_, _)
WriteChunks(w, chunks) ==
    IF chunks = <<>> \/ ~w.ok THEN w
    ELSE WriteChunks(write_all(w, Head(chunks)), Tail(chunks))

\* race_account.serialize(&mut &mut account.data.borrow_mut()[..])
serialize(r, data) ==
    WriteChunks([buf |-> data, pos |-> 0, ok |-> TRUE], RaceAccountChunks(r))

----------------------------------------------------------------------------
(* borsh, deserialization. A value reader takes the buffer and the offset  *)
(* of its first byte and returns [ok, val, next], next the offset of the   *)
(* first byte it did not consume. A struct is read field by field with a   *)
(* cursor [ok, next, vals]: the offset of the next field and the values    *)
(* read so far; the first field that fails fails the whole (the `?`).      *)

ReadFail(d) == [ok |-> FALSE, val |-> 0, next |-> Len(d) + 2]

RECURSIVE from_le_bytes(_)
from_le_bytes(b) ==
    IF b = <<>> THEN 0 ELSE Head(b) + 256 * from_le_bytes(Tail(b))

\* u8/u16/u32/u64::deserialize: w bytes, little endian
ReadUint(d, off, w) ==
    IF off + w - 1 > Len(d) THEN ReadFail(d)
    ELSE [ok |-> TRUE, val |-> from_le_bytes(SubSeq(d, off, off + w - 1)),
          next |-> off + w]

\* [u8; n] / Pubkey::deserialize
ReadBytes(d, off, n) ==
    IF off + n - 1 > Len(d) THEN ReadFail(d)
    ELSE [ok |-> TRUE, val |-> SubSeq(d, off, off + n - 1), next |-> off + n]

\* String::from_utf8 on the bytes read: they must be UTF-8 (here: ASCII)
FromUtf8(d, s) ==
    IF s.ok /\ \A i \in 1..Len(s.val) : s.val[i] < 128 THEN s ELSE ReadFail(d)

\* the bytes of a String, its u32 length len having been read
ReadStringBody(d, len) ==
    IF len.ok THEN FromUtf8(d, ReadBytes(d, len.next, len.val)) ELSE ReadFail(d)

\* String::deserialize: u32 length, then that many bytes
ReadString(d, off) == ReadStringBody(d, ReadUint(d, off, 4))

Start(off) == [ok |-> TRUE, next |-> off, vals |-> <<>>]

\* the cursor after one more field, r what its reader returned
Step(c, r) ==
    IF c.ok /\ r.ok
    THEN [ok |-> TRUE, next |-> r.next, vals |-> Append(c.vals, r.val)]
    ELSE [ok |-> FALSE, next |-> c.next, vals |-> c.vals]

\* Player from the values of its fields
MkPlayer(d, c) ==
    IF c.ok
    THEN [ok |-> TRUE, val |-> [address |-> c.vals[1], slot |-> c.vals[2]],
          next |-> c.next]
    ELSE ReadFail(d)

\* the derived Player::deserialize: address, slot
ReadPlayer(d, off) ==
    MkPlayer(d, Step(Step(Start(off), ReadBytes(d, off, 32)),
                     ReadUint(d, off + 32, 1)))

\* the loop of Vec<T>::deserialize: n more elements
RECURSIVE ReadPlayers(_, _, _)
ReadPlayers(d, c, n) ==
    IF n = 0 \/ ~c.ok THEN c
    ELSE ReadPlayers(d, Step(c, ReadPlayer(d, c.next)), n - 1)

\* the Vec from the cursor its loop ended with
MkVec(d, c) ==
    IF c.ok THEN [ok |-> TRUE, val |-> c.vals, next |-> c.next] ELSE ReadFail(d)

\* the elements of a Vec<Player>, its u32 length len having been read
ReadVecBody(d, len) ==
    IF len.ok THEN MkVec(d, ReadPlayers(d, Start(len.next), len.val))
    ELSE ReadFail(d)

\* Vec<Player>::deserialize
ReadVecPlayer(d, off) == ReadVecBody(d, ReadUint(d, off, 4))

\* Some(v) from what the reader of v returned
MkSome(d, v) ==
    IF v.ok THEN [ok |-> TRUE, val |-> <<v.val>>, next |-> v.next] ELSE ReadFail(d)

\* the value of an Option, its flag byte having been read: 0 is None, 1 is
\* Some and the value follows, anything else is an error
ReadOptionBody(d, flag) ==
    IF ~flag.ok THEN ReadFail(d)
    ELSE IF flag.val = 0 THEN [ok |-> TRUE, val |-> <<>>, next |-> flag.next]
    ELSE IF flag.val = 1 THEN MkSome(d, ReadVecPlayer(d, flag.next))
    ELSE ReadFail(d)

\* Option<Vec<Player>>::deserialize
ReadOption(d, off) == ReadOptionBody(d, ReadUint(d, off, 1))

\* one field of the given type at the cursor
ReadField(d, c, type) ==
    Step(c, CASE type = "u8" -> ReadUint(d, c.next, 1)
              [] type = "u16" -> ReadUint(d, c.next, 2)
              [] type = "u64" -> ReadUint(d, c.next, 8)
              [] type = "String" -> ReadString(d, c.next)
              [] type = "Player" -> ReadPlayer(d, c.next)
              [] type = "Option<Vec<Player>>" -> ReadOption(d, c.next))

\* the fields of a struct, in declaration order
RECURSIVE ReadFields(_, _, _)
ReadFields(d, c, types) ==
    IF types = <<>> \/ ~c.ok THEN c
    ELSE ReadFields(d, ReadField(d, c, Head(types)), Tail(types))

\* the types of the fields of RaceAccount
RaceAccountFields ==
    <<"u8", "u8", "u8", "u64", "String", "String", "u16", "u16", "u16",
      "String", "u64", "Option<Vec<Player>>">>

\* RaceAccount from the values of its fields
MkRaceAccount(d, c) ==
    IF c.ok
    THEN [ok |-> TRUE,
          val |-> [status |-> c.vals[1], level |-> c.vals[2],
                   type |-> c.vals[3], date |-> c.vals[4],
                   name |-> c.vals[5], location |-> c.vals[6],
                   distance |-> c.vals[7], entry_fee |-> c.vals[8],
                   prize_pool |-> c.vals[9], game_url |-> c.vals[10],
                   end_date |-> c.vals[11], players |-> c.vals[12]],
          next |-> c.next]
    ELSE ReadFail(d)

\* the derived RaceAccount::deserialize
ReadRaceAccount(d) == MkRaceAccount(d, ReadFields(d, Start(1), RaceAccountFields))

\* solana_program::borsh::try_from_slice_unchecked: deserializes from the
\* front of the buffer and ignores the bytes that follow the record
try_from_slice_unchecked(d) == ReadRaceAccount(d)

----------------------------------------------------------------------------
(* RaceInstruction and its wire format *)

UpdateRace(args) == [variant |-> 0, args |-> args]
UpdateGame(args) == [variant |-> 1, args |-> args]
JoinRace(args)   == [variant |-> 2, args |-> args]

\* the derived UpdateRaceArgs::serialize
UpdateRaceArgsChunks(a) ==
    << <<a.status>>, <<a.level>>, <<a.type>>, to_le_bytes(a.date, 8) >>
    \o StringChunks(a.name)
    \o StringChunks(a.location)
    \o << to_le_bytes(a.distance, 2), to_le_bytes(a.entry_fee, 2),
          to_le_bytes(a.prize_pool, 2) >>

\* the derived UpdateGameArgs::serialize
UpdateGameArgsChunks(a) ==
    StringChunks(a.game_url) \o << to_le_bytes(a.end_date, 8) >>

\* the derived JoinRaceArgs::serialize
JoinRaceArgsChunks(a) == PlayerChunks(a.player)

\* the derived RaceInstruction::serialize: variant index (u8), then the args
InstructionBytes(ix) ==
    <<ix.variant>> \o
    Flatten(CASE ix.variant = 0 -> UpdateRaceArgsChunks(ix.args)
              [] ix.variant = 1 -> UpdateGameArgsChunks(ix.args)
              [] ix.variant = 2 -> JoinRaceArgsChunks(ix.args))

\* the types of the fields of UpdateRaceArgs
UpdateRaceArgsFields ==
    <<"u8", "u8", "u8", "u64", "String", "String", "u16", "u16", "u16">>

\* UpdateRaceArgs from the values of its fields
MkUpdateRaceArgs(d, c) ==
    IF c.ok
    THEN [ok |-> TRUE,
          val |-> [status |-> c.vals[1], level |-> c.vals[2],
                   type |-> c.vals[3], date |-> c.vals[4],
                   name |-> c.vals[5], location |-> c.vals[6],
                   distance |-> c.vals[7], entry_fee |-> c.vals[8],
                   prize_pool |-> c.vals[9]],
          next |-> c.next]
    ELSE ReadFail(d)

\* the derived UpdateRaceArgs::deserialize
ReadUpdateRaceArgs(d, off) ==
    MkUpdateRaceArgs(d, ReadFields(d, Start(off), UpdateRaceArgsFields))

\* UpdateGameArgs from the values of its fields
MkUpdateGameArgs(d, c) ==
    IF c.ok
    THEN [ok |-> TRUE,
          val |-> [game_url |-> c.vals[1], end_date |-> c.vals[2]],
          next |-> c.next]
    ELSE ReadFail(d)

\* the derived UpdateGameArgs::deserialize: game_url, end_date
ReadUpdateGameArgs(d, off) ==
    MkUpdateGameArgs(d, ReadFields(d, Start(off), <<"String", "u64">>))

\* JoinRaceArgs from the value of its field
MkJoinRaceArgs(d, c) ==
    IF c.ok
    THEN [ok |-> TRUE, val |-> [player |-> c.vals[1]], next |-> c.next]
    ELSE ReadFail(d)

\* the derived JoinRaceArgs::deserialize: player
ReadJoinRaceArgs(d, off) ==
    MkJoinRaceArgs(d, ReadFields(d, Start(off), <<"Player">>))

\* the instruction from its variant index and what the reader of its
\* arguments returned
MkInstruction(d, variant, args) ==
    IF args.ok
    THEN [ok |-> TRUE, val |-> [variant |-> variant, args |-> args.val],
          next |-> args.next]
    ELSE ReadFail(d)

\* the arguments of a RaceInstruction, its variant index idx having been
\* read: the index selects the argument schema; an index other than 0, 1, 2
\* is an error
ReadInstructionBody(d, idx) ==
    IF ~idx.ok THEN ReadFail(d)
    ELSE CASE idx.val = 0 -> MkInstruction(d, 0, ReadUpdateRaceArgs(d, idx.next))
           [] idx.val = 1 -> MkInstruction(d, 1, ReadUpdateGameArgs(d, idx.next))
           [] idx.val = 2 -> MkInstruction(d, 2, ReadJoinRaceArgs(d, idx.next))
           [] OTHER -> ReadFail(d)

\* the derived RaceInstruction::deserialize
ReadRaceInstruction(d) == ReadInstructionBody(d, ReadUint(d, 1, 1))

\* every byte must have been read ("Not all bytes read")
AllRead(d, ix) == IF ix.ok /\ ix.next = Len(d) + 1 THEN ix ELSE ReadFail(d)

\* RaceInstruction::try_from_slice: deserialize, and every byte must have
\* been read
try_from_slice(d) == AllRead(d, ReadRaceInstruction(d))

----------------------------------------------------------------------------
(* Results: ProgramResult as a string *)

Ok == "Ok"
NotEnoughAccountKeys == "NotEnoughAccountKeys"
IncorrectProgramId == "IncorrectProgramId"
\* From<RaceError> for ProgramError: Custom(e as u32)
PlayerFoundError == "Custom(0)"
SlotNotAvailableError == "Custom(1)"
\* From<std::io::Error> for ProgramError, of a failed deserialization
BorshIoErrorRead == "BorshIoError(read)"
\* and of a failed write_all ("failed to write whole buffer")
BorshIoErrorWrite == "BorshIoError(write)"

\* what a handler returns: the result and the ledger it leaves
Ret(res, l) == [result |-> res, ledger |-> l]

----------------------------------------------------------------------------
(* The handlers *)

\* mutant of WrongOwner: the owner test left out
WrongOwner_Never(l, account) == FALSE

\* account.owner != program_id
WrongOwner(l, account) == l[account].owner # program_id

\* mutant of UpdateRaceFields: prize_pool is added to, not overwritten
UpdateRaceFields_AddsPrize(race_account, args) ==
    [race_account EXCEPT !.date = args.date,
                         !.level = args.level,
                         !.name = args.name,
                         !.location = args.location,
                         !.distance = args.distance,
                         !.entry_fee = args.entry_fee,
                         !.prize_pool = (@ + args.prize_pool) % 65536,
                         !.status = args.status]

\* mutant of UpdateRaceFields: the assignment line 180 comments out is
\* live and resets the roster
UpdateRaceFields_ResetsPlayers(race_account, args) ==
    [race_account EXCEPT !.date = args.date,
                         !.level = args.level,
                         !.name = args.name,
                         !.location = args.location,
                         !.distance = args.distance,
                         !.entry_fee = args.entry_fee,
                         !.prize_pool = args.prize_pool,
                         !.status = args.status,
                         !.players = <<>>]

\* the field assignments of process_update_race
UpdateRaceFields(race_account, args) ==
    [race_account EXCEPT !.date = args.date,
                         !.level = args.level,
                         !.name = args.name,
                         !.location = args.location,
                         !.distance = args.distance,
                         !.entry_fee = args.entry_fee,
                         !.prize_pool = args.prize_pool,
                         !.status = args.status]

\* mutant of UpdateGameFields: also overwrites date with end_date
UpdateGameFields_AlsoDate(race_account, args) ==
    [race_account EXCEPT !.game_url = args.game_url,
                         !.end_date = args.end_date,
                         !.date = args.end_date]

\* the field assignments of process_update_game
UpdateGameFields(race_account, args) ==
    [race_account EXCEPT !.game_url = args.game_url,
                         !.end_date = args.end_date]

\* mutant of EntryCheck: the address test left out
EntryCheck_NoAddress(existing, player) ==
    IF existing.slot = player.slot THEN SlotNotAvailableError ELSE Ok

\* mutant of EntryCheck: the slot test left out
EntryCheck_NoSlot(existing, player) ==
    IF existing.address = player.address THEN PlayerFoundError ELSE Ok

\* mutant of EntryCheck: the slot compared before the address
EntryCheck_SlotFirst(existing, player) ==
    IF existing.slot = player.slot THEN SlotNotAvailableError
    ELSE IF existing.address = player.address THEN PlayerFoundError
    ELSE Ok

\* the two tests of the loop body of process_join_race on one roster entry:
\* the address first, then the slot
EntryCheck(existing, player) ==
    IF existing.address = player.address THEN PlayerFoundError
    ELSE IF existing.slot = player.slot THEN SlotNotAvailableError
    ELSE Ok

\* the for loop of process_join_race over the players not yet scanned:
\* the error of the first entry that has the address or the slot, or Ok and
\* the local new_players
RECURSIVE ScanPlayers(_, _, _)
ScanPlayers(players, new_players, player) ==
    IF players = <<>> THEN [err |-> Ok, new_players |-> new_players]
    ELSE IF EntryCheck(Head(players), player) # Ok
         THEN [err |-> EntryCheck(Head(players), player),
               new_players |-> new_players]
    ELSE ScanPlayers(Tail(players), Append(new_players, Head(players)), player)

\* mutant of JoinRaceRoster: the player is pushed onto the stored roster
\* without the scan
JoinRaceRoster_Unchecked(race_account, args) ==
    [err |-> Ok,
     race_account |->
        [race_account EXCEPT !.players =
            IF race_account.players = <<>> THEN << <<args.player>> >>
            ELSE << Append(race_account.players[1], args.player) >>]]

\* mutant of JoinRaceRoster: the None branch wraps an empty Vec and
\* forgets the push
JoinRaceRoster_NoPush(race_account, args) ==
    IF race_account.players # <<>>
    THEN [err |-> ScanPlayers(race_account.players[1], <<>>, args.player).err,
          race_account |-> race_account]
    ELSE [err |-> Ok,
          race_account |-> [race_account EXCEPT !.players = << <<>> >>]]

\* the if-let of process_join_race: [err, race_account]. With Some(players)
\* the scan fills the local new_players, which is dropped at the end of the
\* block: race_account.players is not assigned. With None the roster becomes
\* Some([player]).
JoinRaceRoster(race_account, args) ==
    IF race_account.players # <<>>
    THEN LET scan == ScanPlayers(race_account.players[1], <<>>, args.player)
             new_players == Append(scan.new_players, args.player)
         IN  [err |-> scan.err, race_account |-> race_account]
    ELSE [err |-> Ok,
          race_account |-> [race_account EXCEPT !.players = << <<args.player>> >>]]

\* the tail every handler shares: serialize the record into the account's
\* data; the bytes write_all copied stay in the buffer when it fails
Stored(l, account, w) ==
    Ret(IF w.ok THEN Ok ELSE BorshIoErrorWrite, [l EXCEPT ![account].data = w.buf])

StoreRaceAccount(l, account, race_account) ==
    Stored(l, account, serialize(race_account, l[account].data))

\* process_update_race from the deserialized record rd on
UpdateRaceLoaded(l, account, rd, args) ==
    IF ~rd.ok THEN Ret(BorshIoErrorRead, l)
    ELSE StoreRaceAccount(l, account, UpdateRaceFields(rd.val, args))

\* mutant of process_update_race: the account is taken from the end of the
\* list
process_update_race_LastAccount(l, accts, args) ==
    IF accts = <<>> THEN Ret(NotEnoughAccountKeys, l)
    ELSE IF WrongOwner(l, accts[Len(accts)]) THEN Ret(IncorrectProgramId, l)
    ELSE UpdateRaceLoaded(l, accts[Len(accts)],
                          try_from_slice_unchecked(l[accts[Len(accts)]].data),
                          args)

process_update_race(l, accts, args) ==
    IF accts = <<>> THEN Ret(NotEnoughAccountKeys, l)
    ELSE IF WrongOwner(l, accts[1]) THEN Ret(IncorrectProgramId, l)
    ELSE UpdateRaceLoaded(l, accts[1],
                          try_from_slice_unchecked(l[accts[1]].data), args)

\* mutant of UpdateGameLoaded: bytes that do not deserialize are replaced
\* by the default record
UpdateGameLoaded_DefaultFill(l, account, rd, args) ==
    IF ~rd.ok
    THEN StoreRaceAccount(l, account,
            UpdateGameFields([status |-> 0, level |-> 0, type |-> 0,
                              date |-> 0, name |-> <<>>, location |-> <<>>,
                              distance |-> 0, entry_fee |-> 0,
                              prize_pool |-> 0, game_url |-> <<>>,
                              end_date |-> 0, players |-> <<>>], args))
    ELSE StoreRaceAccount(l, account, UpdateGameFields(rd.val, args))

\* process_update_game from the deserialized record rd on
UpdateGameLoaded(l, account, rd, args) ==
    IF ~rd.ok THEN Ret(BorshIoErrorRead, l)
    ELSE StoreRaceAccount(l, account, UpdateGameFields(rd.val, args))

\* mutant of process_update_game: an empty account list is a no-op
process_update_game_NoAccountOk(l, accts, args) ==
    IF accts = <<>> THEN Ret(Ok, l)
    ELSE IF WrongOwner(l, accts[1]) THEN Ret(IncorrectProgramId, l)
    ELSE UpdateGameLoaded(l, accts[1],
                          try_from_slice_unchecked(l[accts[1]].data), args)

process_update_game(l, accts, args) ==
    IF accts = <<>> THEN Ret(NotEnoughAccountKeys, l)
    ELSE IF WrongOwner(l, accts[1]) THEN Ret(IncorrectProgramId, l)
    ELSE UpdateGameLoaded(l, accts[1],
                          try_from_slice_unchecked(l[accts[1]].data), args)

\* process_join_race from the if-let's outcome j on: an error returns
\* before the record is serialized
JoinRaceChecked(l, account, j) ==
    IF j.err # Ok THEN Ret(j.err, l)
    ELSE StoreRaceAccount(l, account, j.race_account)

\* process_join_race from the deserialized record rd on
JoinRaceLoaded(l, account, rd, args) ==
    IF ~rd.ok THEN Ret(BorshIoErrorRead, l)
    ELSE JoinRaceChecked(l, account, JoinRaceRoster(rd.val, args))

\* mutant of process_join_race: the record is deserialized before the owner
\* is tested
process_join_race_DecodeFirst(l, accts, args) ==
    IF accts = <<>> THEN Ret(NotEnoughAccountKeys, l)
    ELSE IF ~try_from_slice_unchecked(l[accts[1]].data).ok
         THEN Ret(BorshIoErrorRead, l)
    ELSE IF WrongOwner(l, accts[1]) THEN Ret(IncorrectProgramId, l)
    ELSE JoinRaceLoaded(l, accts[1],
                        try_from_slice_unchecked(l[accts[1]].data), args)

process_join_race(l, accts, args) ==
    IF accts = <<>> THEN Ret(NotEnoughAccountKeys, l)
    ELSE IF WrongOwner(l, accts[1]) THEN Ret(IncorrectProgramId, l)
    ELSE JoinRaceLoaded(l, accts[1],
                        try_from_slice_unchecked(l[accts[1]].data), args)

\* mutant of Dispatch: the account is taken from the list before the
\* instruction is looked at
Dispatch_AccountFirst(l, accts, instruction) ==
    IF accts = <<>> THEN Ret(NotEnoughAccountKeys, l)
    ELSE IF ~instruction.ok THEN Ret(BorshIoErrorRead, l)
    ELSE CASE instruction.val.variant = 0 ->
                process_update_race(l, accts, instruction.val.args)
           [] instruction.val.variant = 1 ->
                process_update_game(l, accts, instruction.val.args)
           [] instruction.val.variant = 2 ->
                process_join_race(l, accts, instruction.val.args)

\* the match of process_instruction on the decoded instruction
Dispatch(l, accts, instruction) ==
    IF ~instruction.ok THEN Ret(BorshIoErrorRead, l)
    ELSE CASE instruction.val.variant = 0 ->
                process_update_race(l, accts, instruction.val.args)
           [] instruction.val.variant = 1 ->
                process_update_game(l, accts, instruction.val.args)
           [] instruction.val.variant = 2 ->
                process_join_race(l, accts, instruction.val.args)

\* the entrypoint: decode the instruction, then dispatch on the variant
process_instruction(l, accts, data) == Dispatch(l, accts, try_from_slice(data))

----------------------------------------------------------------------------
(* The environment: accounts, account lists, instructions *)

\* "race": owned by the program, zero-filled at creation (the bytes of the
\* default record); "foreign": the same bytes, owned by another program;
\* "short": owned by the program, the 4 zero bytes of the account of
\* test_sanity, too short for a RaceAccount; "foreign_short": the same
\* bytes, owned by another program
Keys == {"race", "foreign", "short", "foreign_short"}

Zeros(n) == [i \in 1..n |-> 0]

InitLedger ==
    [k \in Keys |->
        CASE k = "race"          -> [owner |-> program_id, data |-> Zeros(Capacity)]
          [] k = "foreign"       -> [owner |-> other_program, data |-> Zeros(Capacity)]
          [] k = "short"         -> [owner |-> program_id, data |-> Zeros(4)]
          [] k = "foreign_short" -> [owner |-> other_program, data |-> Zeros(4)]]

\* the account lists a caller passes: none, one account, or two
AccountLists ==
    {<<>>} \cup {<<k>> : k \in Keys}
           \cup {<<"race", "foreign">>, <<"foreign", "race">>}

StrAbc == <<97, 98, 99>>
StrXy == <<120, 121>>
\* "http://" and 28 times "x"
StrUrl == <<104, 116, 116, 112, 58, 47, 47>> \o [i \in 1..28 |-> 120]

UpdateRaceArgsSet ==
    [status : {1, 2}, level : {5}, type : {3}, date : {1000},
     name : {StrAbc}, location : {StrXy}, distance : {300},
     entry_fee : {7}, prize_pool : {65535}]

UpdateGameArgsSet == [game_url : {<<>>, StrUrl}, end_date : {70000}]

Players == [address : {Pubkey(1), Pubkey(2)}, slot : {3, 7}]

JoinRaceArgsSet == [player : Players]

\* instruction bytes that are no RaceInstruction: empty, an unknown variant
\* index, a JoinRace cut short, an UpdateGame followed by one more byte
MalformedData ==
    { <<>>, <<3>>, <<2, 1, 1>>,
      InstructionBytes(UpdateGame([game_url |-> <<>>, end_date |-> 100])) \o <<0>> }

----------------------------------------------------------------------------
(* The state machine: one action per instruction variant and one for bytes *)
(* that are no instruction, each the whole of process_instruction          *)

\* the call: the caller's account list and instruction bytes
Call(accts, data) ==
    /\ accounts' = accts
    /\ instruction_data' = data

\* the return: the result, and the accounts as the invocation leaves them
Return(r) ==
    /\ pre' = ledger
    /\ result' = r.result
    /\ ledger' = r.ledger

\* the return of a JoinRace: a player whose join returned Ok is noted
ReturnJoin(accts, player, r) ==
    /\ Return(r)
    /\ joined' = IF r.result = Ok
                 THEN [joined EXCEPT ![accts[1]] = @ \cup {player}]
                 ELSE joined

Init ==
    /\ ledger = InitLedger
    /\ pre = InitLedger
    /\ accounts = <<>>
    /\ instruction_data = <<>>
    /\ result = "None"
    /\ joined = [k \in Keys |-> {}]

DoUpdateRace ==
    \E accts \in AccountLists, args \in UpdateRaceArgsSet :
        /\ Call(accts, InstructionBytes(UpdateRace(args)))
        /\ Return(process_instruction(ledger, accts,
                                      InstructionBytes(UpdateRace(args))))
        /\ UNCHANGED joined

DoUpdateGame ==
    \E accts \in AccountLists, args \in UpdateGameArgsSet :
        /\ Call(accts, InstructionBytes(UpdateGame(args)))
        /\ Return(process_instruction(ledger, accts,
                                      InstructionBytes(UpdateGame(args))))
        /\ UNCHANGED joined

DoJoinRace ==
    \E accts \in AccountLists, args \in JoinRaceArgsSet :
        /\ Call(accts, InstructionBytes(JoinRace(args)))
        /\ ReturnJoin(accts, args.player,
                      process_instruction(ledger, accts,
                                          InstructionBytes(JoinRace(args))))

DoMalformed ==
    \E accts \in AccountLists, data \in MalformedData :
        /\ Call(accts, data)
        /\ Return(process_instruction(ledger, accts, data))
        /\ UNCHANGED joined

Next == DoUpdateRace \/ DoUpdateGame \/ DoJoinRace \/ DoMalformed

Spec == Init /\ [][Next]_vars

\* The scan of process_join_race as a function of the stored roster and the
\* player: the race account starts holding RaceAccount::default() with a
\* roster of one or two entries, no address and no slot twice, and JoinRace
\* is the only instruction.
ScanPlayersSet == [address : {Pubkey(1), Pubkey(2), Pubkey(3)}, slot : {3, 7, 9}]

ScanRosters ==
    {<<p>> : p \in ScanPlayersSet}
        \cup {r \in ScanPlayersSet \X ScanPlayersSet :
                  r[1].address # r[2].address /\ r[1].slot # r[2].slot}

DefaultWithRoster(roster) ==
    [status |-> 0, level |-> 0, type |-> 0, date |-> 0, name |-> <<>>,
     location |-> <<>>, distance |-> 0, entry_fee |-> 0, prize_pool |-> 0,
     game_url |-> <<>>, end_date |-> 0, players |-> <<roster>>]

ScanLedger(roster) ==
    [InitLedger EXCEPT !["race"].data =
        try_to_vec(DefaultWithRoster(roster))
            \o Zeros(Capacity - Len(try_to_vec(DefaultWithRoster(roster))))]

InitScan ==
    /\ \E roster \in ScanRosters : ledger = ScanLedger(roster)
    /\ pre = ledger
    /\ accounts = <<>>
    /\ instruction_data = <<>>
    /\ result = "None"
    /\ joined = [k \in Keys |-> {}]

NextScan == DoJoinRace

SpecScan == InitScan /\ [][NextScan]_vars

----------------------------------------------------------------------------
(* Reading the last invocation off the state *)

\* the instruction the last invocation decoded
Ix == try_from_slice(instruction_data)

\* the last invocation was instruction variant v on a non-empty account list
Ran(v) == result # "None" /\ Ix.ok /\ Ix.val.variant = v /\ accounts # <<>>

\* the target account: the first of the list
Target == accounts[1]

\* the target's record before and after the last invocation
PreRec == try_from_slice_unchecked(pre[Target].data)
PostRec == try_from_slice_unchecked(ledger[Target].data)

\* the target is owned by the program and its bytes decode
Loaded == pre[Target].owner = program_id /\ PreRec.ok

\* the roster of a record with players present
Roster(r) == r.players[1]

\* r serializes into no more bytes than the target account holds
Fits(r) == Len(try_to_vec(r)) <= Len(pre[Target].data)

----------------------------------------------------------------------------
(* Claims *)

\* C1. Roster uniqueness: in every state reached from the absent roster by
\* any sequence of instructions, successful or failed, the roster stored in
\* any account has pairwise-distinct addresses and pairwise-distinct slots.
C1_RosterUnique ==
    \A k \in Keys :
        LET r == try_from_slice_unchecked(ledger[k].data)
        IN  (r.ok /\ r.val.players # <<>>) =>
                \A i, j \in 1..Len(Roster(r.val)) :
                    i # j => /\ Roster(r.val)[i].address # Roster(r.val)[j].address
                             /\ Roster(r.val)[i].slot # Roster(r.val)[j].slot

\* a JoinRace returned Ok on a roster that was already present
C1_Witness ==
    /\ Ran(2) /\ Loaded /\ result = Ok
    /\ PreRec.val.players # <<>>
    /\ PostRec.ok /\ PostRec.val.players # <<>>

\* C2. A JoinRace whose player shares no address and no slot with the
\* present roster succeeds and stores the previous roster with the player
\* appended at the end.
C2_JoinAppends ==
    (/\ Ran(2) /\ Loaded
     /\ PreRec.val.players # <<>>
     /\ \A i \in 1..Len(Roster(PreRec.val)) :
            /\ Roster(PreRec.val)[i].address # Ix.val.args.player.address
            /\ Roster(PreRec.val)[i].slot # Ix.val.args.player.slot)
    => /\ result = Ok
       /\ PostRec.ok
       /\ PostRec.val.players # <<>>
       /\ Roster(PostRec.val) = Append(Roster(PreRec.val), Ix.val.args.player)

\* C3 as stated. A JoinRace on a program-owned account whose roster is
\* absent succeeds and stores the roster [P], the other fields unchanged.
C3_FirstJoinSucceeds ==
    (Ran(2) /\ Loaded /\ PreRec.val.players = <<>>)
    => /\ result = Ok
       /\ PostRec.ok
       /\ PostRec.val = [PreRec.val EXCEPT !.players = << <<Ix.val.args.player>> >>]

\* C3 amended. A JoinRace on a program-owned account whose roster is absent,
\* when the record with the roster [P] serializes into no more bytes than
\* the account holds, succeeds and stores the roster [P], the other fields
\* unchanged.
C3_FirstJoinThatFits ==
    (/\ Ran(2) /\ Loaded /\ PreRec.val.players = <<>>
     /\ Fits([PreRec.val EXCEPT !.players = << <<Ix.val.args.player>> >>]))
    => /\ result = Ok
       /\ PostRec.ok
       /\ PostRec.val = [PreRec.val EXCEPT !.players = << <<Ix.val.args.player>> >>]

\* a first join succeeded on a record whose text fields had been set
C3_Witness ==
    /\ Ran(2) /\ Loaded /\ PreRec.val.players = <<>>
    /\ PreRec.val.name # <<>>
    /\ result = Ok
    /\ PostRec.ok /\ PostRec.val.players = << <<Ix.val.args.player>> >>

\* C4. A JoinRace whose player has the address of a player of the stored
\* roster fails with PlayerFoundError and leaves every account's bytes as
\* they were.
C4_SameAddressRejected ==
    (/\ Ran(2) /\ Loaded /\ PreRec.val.players # <<>>
     /\ \E i \in 1..Len(Roster(PreRec.val)) :
            Roster(PreRec.val)[i].address = Ix.val.args.player.address)
    => result = PlayerFoundError /\ ledger = pre

\* a join with a taken address and a free slot was rejected
C4_Witness ==
    /\ Ran(2) /\ Loaded /\ PreRec.val.players # <<>>
    /\ \E i \in 1..Len(Roster(PreRec.val)) :
            /\ Roster(PreRec.val)[i].address = Ix.val.args.player.address
            /\ Roster(PreRec.val)[i].slot # Ix.val.args.player.slot
    /\ result = PlayerFoundError

\* C5. A JoinRace whose player has a new address and the slot of a player of
\* the stored roster fails with SlotNotAvailableError and leaves every
\* account's bytes as they were.
C5_SameSlotRejected ==
    (/\ Ran(2) /\ Loaded /\ PreRec.val.players # <<>>
     /\ \A i \in 1..Len(Roster(PreRec.val)) :
            Roster(PreRec.val)[i].address # Ix.val.args.player.address
     /\ \E i \in 1..Len(Roster(PreRec.val)) :
            Roster(PreRec.val)[i].slot = Ix.val.args.player.slot)
    => result = SlotNotAvailableError /\ ledger = pre

\* a join with a new address and a taken slot was rejected
C5_Witness ==
    /\ Ran(2) /\ Loaded /\ PreRec.val.players # <<>>
    /\ \A i \in 1..Len(Roster(PreRec.val)) :
            Roster(PreRec.val)[i].address # Ix.val.args.player.address
    /\ result = SlotNotAvailableError

\* C6. Authorization gate: whichever the variant, an instruction whose
\* target account is not owned by the program fails with IncorrectProgramId
\* and every account's bytes are as they were.
C6_OwnerGate ==
    (/\ result # "None" /\ Ix.ok /\ accounts # <<>>
     /\ pre[Target].owner # program_id)
    => result = IncorrectProgramId /\ ledger = pre

\* an instruction was refused on a foreign-owned account whose bytes decode,
\* with the program's own race account second in the list
C6_Witness ==
    /\ Ran(0) /\ pre[Target].owner # program_id /\ PreRec.ok
    /\ Len(accounts) = 2
    /\ result = IncorrectProgramId

\* the record an instruction is to store: the handler's record for the
\* target's record before the invocation
NewRec ==
    CASE Ix.val.variant = 0 -> UpdateRaceFields(PreRec.val, Ix.val.args)
      [] Ix.val.variant = 1 -> UpdateGameFields(PreRec.val, Ix.val.args)
      [] Ix.val.variant = 2 -> JoinRaceRoster(PreRec.val, Ix.val.args).race_account

\* the last invocation got as far as storing a record
Stores ==
    /\ result # "None" /\ Ix.ok /\ accounts # <<>> /\ Loaded
    /\ (Ix.val.variant = 2 => JoinRaceRoster(PreRec.val, Ix.val.args).err = Ok)

\* C7. Storage capacity: when the record to store does not fit in the
\* account's capacity the instruction fails and the account's bytes are
\* the bytes before the invocation.
C7_NoPartialWrite ==
    (Stores /\ ~Fits(NewRec)) => result # Ok /\ ledger = pre

\* C8. After a successful UpdateRace each of status, level, type, date,
\* name, location, distance, entry_fee and prize_pool of the stored record
\* equals the argument's field.
C8_UpdateRaceSetsAll ==
    (Ran(0) /\ result = Ok)
    => /\ PostRec.ok
       /\ PostRec.val.status = Ix.val.args.status
       /\ PostRec.val.level = Ix.val.args.level
       /\ PostRec.val.type = Ix.val.args.type
       /\ PostRec.val.date = Ix.val.args.date
       /\ PostRec.val.name = Ix.val.args.name
       /\ PostRec.val.location = Ix.val.args.location
       /\ PostRec.val.distance = Ix.val.args.distance
       /\ PostRec.val.entry_fee = Ix.val.args.entry_fee
       /\ PostRec.val.prize_pool = Ix.val.args.prize_pool

\* C9. A successful UpdateGame stores game_url and end_date of the
\* arguments and leaves every other field of the record as it was.
C9_UpdateGameFrame ==
    (Ran(1) /\ result = Ok)
    => /\ PostRec.ok
       /\ PostRec.val = [PreRec.val EXCEPT !.game_url = Ix.val.args.game_url,
                                           !.end_date = Ix.val.args.end_date]

\* an UpdateGame succeeded on a record with name, date and roster set, and
\* changed end_date
C9_Witness ==
    /\ Ran(1) /\ result = Ok
    /\ PreRec.val.name # <<>> /\ PreRec.val.date # 0
    /\ PreRec.val.players # <<>>
    /\ PreRec.val.end_date # PostRec.val.end_date

\* C10. A successful UpdateRace leaves players, game_url and end_date of
\* the stored record as they were.
C10_UpdateRaceFrame ==
    (Ran(0) /\ result = Ok)
    => /\ PostRec.ok
       /\ PostRec.val.players = PreRec.val.players
       /\ PostRec.val.game_url = PreRec.val.game_url
       /\ PostRec.val.end_date = PreRec.val.end_date

\* an UpdateRace succeeded on a record with a roster and an end_date, and
\* changed the status
C10_Witness ==
    /\ Ran(0) /\ result = Ok
    /\ PreRec.val.players # <<>>
    /\ PreRec.val.end_date # 0
    /\ PostRec.val.status # PreRec.val.status

\* C11. Idempotence of the metadata overwrite: once an UpdateRace has run,
\* the same UpdateRace on the same accounts leaves every account's bytes, and
\* so the stored record, as the first left them; after a successful one it
\* succeeds again.
C11_UpdateRaceIdempotent ==
    (Ran(0) /\ Loaded)
    => /\ process_instruction(ledger, accounts, instruction_data).ledger = ledger
       /\ result = Ok =>
            process_instruction(ledger, accounts, instruction_data).result = Ok

\* an UpdateRace succeeded and changed the stored record
C11_Witness ==
    /\ Ran(0) /\ Loaded /\ result = Ok
    /\ PostRec.ok /\ PostRec.val # PreRec.val
    /\ PreRec.val.players # <<>>

\* the record stored in account k of ledger l has a present, non-empty roster
HasRoster(l, k) ==
    /\ try_from_slice_unchecked(l[k].data).ok
    /\ try_from_slice_unchecked(l[k].data).val.players # <<>>
    /\ Roster(try_from_slice_unchecked(l[k].data).val) # <<>>

\* C12. The roster of a stored record is absent or a non-empty sequence, and
\* a roster that is present and non-empty before an invocation is present
\* and non-empty after it.
C12_RosterStays ==
    \A k \in Keys :
        /\ try_from_slice_unchecked(ledger[k].data).ok =>
             \/ try_from_slice_unchecked(ledger[k].data).val.players = <<>>
             \/ HasRoster(ledger, k)
        /\ HasRoster(pre, k) => HasRoster(ledger, k)

C14_OwnerBeforeDecode ==
    (/\ result # "None" /\ Ix.ok /\ accounts # <<>>
     /\ pre[Target].owner # program_id
     /\ ~PreRec.ok)
    => result = IncorrectProgramId

\* a JoinRace was refused on a foreign-owned account whose bytes do not
\* deserialize
C14_Witness ==
    /\ Ran(2) /\ pre[Target].owner # program_id /\ ~PreRec.ok
    /\ result = IncorrectProgramId

\* C15. A well-formed instruction with an empty account list fails with
\* NotEnoughAccountKeys, whichever the variant, and no account changes.
C15_MissingAccount ==
    (result # "None" /\ Ix.ok /\ accounts = <<>>)
    => result = NotEnoughAccountKeys /\ ledger = pre

\* an UpdateGame with an empty account list was refused
C15_Witness ==
    /\ Ix.ok /\ Ix.val.variant = 1 /\ accounts = <<>>
    /\ result = NotEnoughAccountKeys

\* C16. When the bytes of a program-owned target do not deserialize, the
\* instruction, whichever the variant, fails with the error of the failed
\* deserialization and no account's bytes change.
C16_UndecodableRejected ==
    (/\ result # "None" /\ Ix.ok /\ accounts # <<>>
     /\ pre[Target].owner = program_id
     /\ ~PreRec.ok)
    => result = BorshIoErrorRead /\ ledger = pre

\* an UpdateGame was refused on the race account, whose bytes an earlier
\* instruction had left undecodable
C16_Witness ==
    /\ Ran(1) /\ Target = "race" /\ ~PreRec.ok
    /\ result = BorshIoErrorRead

\* C17. Every account other than the first of the account list has its
\* bytes unchanged by the invocation, successful or failed.
C17_OnlyFirstAccount ==
    \A k \in Keys :
        (accounts = <<>> \/ k # accounts[1]) => ledger[k] = pre[k]

\* an instruction with two accounts changed the bytes of the first
C17_Witness ==
    /\ Len(accounts) = 2
    /\ result = Ok
    /\ ledger[Target].data # pre[Target].data

\* the invocation of data on accts that returned res ran a JoinRace on the
\* account k
JoinRan(data, accts, res, k) ==
    /\ res # "None"
    /\ try_from_slice(data).ok
    /\ try_from_slice(data).val.variant = 2
    /\ accts # <<>>
    /\ accts[1] = k

\* the player of the JoinRace that data encodes
Joining(data) == try_from_slice(data).val.args.player

\* C18. A successful join is durable: in every step that runs a JoinRace on
\* an account, a player whose address was granted by an earlier successful
\* join on that account is refused with PlayerFoundError, and a player with
\* a new address whose slot was granted by an earlier successful join is
\* refused with SlotNotAvailableError.
C18_JoinDurable ==
    [][\A k \in Keys :
         JoinRan(instruction_data', accounts', result', k) =>
            /\ (\E p \in joined[k] :
                    p.address = Joining(instruction_data').address)
                  => result' = PlayerFoundError
            /\ (/\ \A p \in joined[k] :
                    p.address # Joining(instruction_data').address
                /\ \E p \in joined[k] :
                    p.slot = Joining(instruction_data').slot)
                  => result' = SlotNotAvailableError]_vars

\* the roster entry has the player's address or the player's slot
Violates(existing, player) ==
    existing.address = player.address \/ existing.slot = player.slot

\* the first entry of the roster, in roster order, that has the player's
\* address or slot
FirstViolation(roster, player) ==
    CHOOSE i \in 1..Len(roster) :
        /\ Violates(roster[i], player)
        /\ \A j \in 1..(i - 1) : ~Violates(roster[j], player)

\* C19. Tie-break by scan order: when some entry of the stored roster has the
\* joining player's address or slot, JoinRace fails with the error of the
\* first such entry in roster order: PlayerFoundError when that entry has the
\* player's address (also when it has the slot as well), SlotNotAvailableError
\* when it has the slot only.
C19_ScanOrder ==
    (/\ Ran(2) /\ Loaded /\ PreRec.val.players # <<>>
     /\ \E i \in 1..Len(Roster(PreRec.val)) :
            Violates(Roster(PreRec.val)[i], Joining(instruction_data)))
    => result =
         IF Roster(PreRec.val)[FirstViolation(Roster(PreRec.val),
                                              Joining(instruction_data))].address
                = Joining(instruction_data).address
         THEN PlayerFoundError
         ELSE SlotNotAvailableError

\* the first entry has the player's slot, the second the player's address,
\* and the join was refused for the slot
C19_Witness ==
    /\ Ran(2) /\ Loaded /\ PreRec.val.players # <<>>
    /\ Len(Roster(PreRec.val)) = 2
    /\ Roster(PreRec.val)[1].slot = Joining(instruction_data).slot
    /\ Roster(PreRec.val)[1].address # Joining(instruction_data).address
    /\ Roster(PreRec.val)[2].address = Joining(instruction_data).address
    /\ result = SlotNotAvailableError

\* C20. Read-after-write: after a successful instruction the bytes of the
\* target deserialize to exactly the record the handler stored, also when
\* that record serializes into fewer bytes than the record before.
C20_ReadAfterWrite ==
    (Stores /\ result = Ok) => PostRec.ok /\ PostRec.val = NewRec

\* a successful instruction stored a record shorter than the one before
C20_Witness ==
    /\ Stores /\ result = Ok
    /\ Len(try_to_vec(NewRec)) < Len(try_to_vec(PreRec.val))
    /\ PostRec.ok /\ PostRec.val = NewRec

====
